---- MODULE Spec2Model ----
(***************************************************************************)
(* A model of two components of abydos:                                    *)
(*   - Sift4Extended.dist_abs (abydos/distance/_sift4_extended.py), the    *)
(*     Sift4 approximate edit-distance scanner, one action per iteration   *)
(*     of its scan loop;                                                   *)
(*   - the token-set contingency engine that Doolittle.sim, TullossS.sim   *)
(*     and Dennis.sim_score call (tokenize, intersection_card,             *)
(*     src_only_card, tar_only_card, total_complement_card).               *)
(* Cursors and indices are 0-based as in the Python source; CharAt does    *)
(* the shift to TLA+'s 1-based sequences.                                  *)
(***************************************************************************)
EXTENDS Integers, Sequences, FiniteSets, TLC

----------------------------------------------------------------------------
(* Bounds of the model *)

MaxLen == 4

MaxOffsetBound == 3

MaxDistanceBound == 3

Alphabet == {"a", "b"}

MaxCount == 2

(* Tokens, in the fixed order in which a multiset is iterated *)
TokenOrder == <<"x", "y", "z">>

Tokens == {TokenOrder[i] : i \in 1..Len(TokenOrder)}

(* Similarities are reals in [0, 1]: they are held as multiples of
   1/SimScale, and so are all cardinalities (1 token = SimScale units). *)
SimScale == 2

(* Defaults of Sift4Extended.__init__ *)
DefaultMaxOffset == 5

DefaultMaxDistance == 0

----------------------------------------------------------------------------
(* Python helpers *)

Abs(x) == IF x < 0 THEN -x ELSE x

Min(x, y) == IF x <= y THEN x ELSE y

Max(x, y) == IF x >= y THEN x ELSE y

(* what a read of s[k] raises in Python: negative indices wrap around *)
IndexError(s, k) == k >= Len(s) \/ k < -Len(s)

NoChar == ""

(* s[k], 0-based, with Python's negative indices *)
CharAt(s, k) ==
    IF IndexError(s, k) THEN NoChar
    ELSE IF k < 0 THEN s[Len(s) + k + 1] ELSE s[k + 1]

RemoveAt(arr, i) == [j \in 1..(Len(arr) - 1) |-> IF j < i THEN arr[j] ELSE arr[j + 1]]

Strings == UNION {[1..n -> Alphabet] : n \in 0..MaxLen}

(* The four pairs of the dist_abs doctest, with the values it documents *)
DocExamples ==
    { [src |-> <<"c","a","t">>, tar |-> <<"h","a","t">>, expected |-> 1],
      [src |-> <<"N","i","a","l","l">>, tar |-> <<"N","e","i","l">>, expected |-> 2],
      [src |-> <<"a","l","u","m","i","n","u","m">>,
       tar |-> <<"C","a","t","a","l","a","n">>, expected |-> 3],
      [src |-> <<"A","T","C","G">>, tar |-> <<"T","A","G","C">>, expected |-> 2] }

(* Pairs over three letters in which one target character is matched
   against several source positions *)
TranspositionExamples ==
    { [src |-> <<"a","a","b">>, tar |-> <<"b","c","b","a">>],
      [src |-> <<"b","c","b","a">>, tar |-> <<"a","a","b">>] }

----------------------------------------------------------------------------
(* State *)

VARIABLES
    src, tar,               \* arguments of dist_abs
    max_offset,             \* self._max_offset
    max_distance,           \* self._max_distance
    pc,                     \* "start" | "loop" | "done"
    src_cur, tar_cur,       \* cursors
    lcss, local_cs, trans,  \* counters
    offset_arr,             \* offset history: sequence of [src_cur, tar_cur, trans], each
                            \* tagged with born, the iteration that appended it
    result,                 \* returned value (valid when pc = "done")
    exit_kind,              \* how the call returned: "none" | "empty" | "early" | "end" | "raised"
    last_step,              \* kind of the last loop iteration: "none" | "match" | "mismatch"
    reads,                  \* character accesses of the last iteration: set of <<"src"|"tar", index>>
    head,                   \* cursors at the head of the last iteration
    steps,                  \* number of loop iterations executed so far
    advanced,               \* cursors of the last iteration after line 163, before the end realignment
    blame,                  \* one [born, guarded] per increment of trans: the history entry that caused it
    params,                 \* engine configuration: intersection_type, metric, threshold, alphabet
    src_tokens, tar_tokens, \* token multisets stored on the instance by tokenize
    epc,                    \* position of the comparison: "idle" | "tokenized" | "returned"
    cards,                  \* cardinalities read by the measure: [measure, a, b, c, d, n]
    calls                   \* the comparisons in progress on the instance, one per caller:
                            \* [pc, measure, src, tar, value]

sift_vars == <<src, tar, max_offset, max_distance, pc, src_cur, tar_cur, lcss,
               local_cs, trans, offset_arr, result, exit_kind, last_step, reads, head,
               steps, advanced, blame>>

engine_vars == <<params, src_tokens, tar_tokens, epc, cards, calls>>

vars == <<sift_vars, engine_vars>>

----------------------------------------------------------------------------
(* Sift4Extended.dist_abs as a function of a state record *)

(* line 121: the new pair overlaps the cursor range of a history entry *)
OverlapsFlipped(sc, tc, ofs) == sc >= ofs.src_cur \/ tc <= ofs.tar_cur

Overlaps(sc, tc, ofs) == sc <= ofs.src_cur \/ tc <= ofs.tar_cur

(* line 131: the new pair supersedes a history entry *)
SupersededFlipped(sc, tc, ofs) == sc < ofs.tar_cur /\ tc < ofs.src_cur

Superseded(sc, tc, ofs) == sc > ofs.tar_cur /\ tc > ofs.src_cur

(* lines 119-134, without the assignment of line 128 *)
RECURSIVE ScanOffsetsNoFlag(_, _, _, _, _)
ScanOffsetsNoFlag(arr, i, sc, tc, tr) ==
    IF i > Len(arr) THEN [arr |-> arr, trans |-> tr, is_trans |-> FALSE, caused |-> <<>>]
    ELSE LET ofs == arr[i] IN
         IF Overlaps(sc, tc, ofs)
         THEN LET is_trans == Abs(tc - sc) >= Abs(ofs.tar_cur - ofs.src_cur) IN
              IF is_trans
              THEN [arr |-> arr, trans |-> tr + 1, is_trans |-> TRUE,
                    caused |-> <<[born |-> ofs.born, guarded |-> FALSE]>>]
              ELSE IF ~ofs.trans
                   THEN [arr |-> arr, trans |-> tr + 1, is_trans |-> FALSE,
                         caused |-> <<[born |-> ofs.born, guarded |-> TRUE]>>]
                   ELSE [arr |-> arr, trans |-> tr, is_trans |-> FALSE, caused |-> <<>>]
         ELSE IF Superseded(sc, tc, ofs)
              THEN ScanOffsetsNoFlag(RemoveAt(arr, i), i, sc, tc, tr)
              ELSE ScanOffsetsNoFlag(arr, i + 1, sc, tc, tr)

(* lines 119-134: scan of the offset history in a matching step.
   Returns the new history, the new trans counter and is_trans, and in
   caused the entry an increment of trans is due to (guarded: the increment
   is the one of line 129, behind the entry's flag). *)
RECURSIVE ScanOffsets(_, _, _, _, _)
ScanOffsets(arr, i, sc, tc, tr) ==
    IF i > Len(arr) THEN [arr |-> arr, trans |-> tr, is_trans |-> FALSE, caused |-> <<>>]
    ELSE LET ofs == arr[i] IN
         IF Overlaps(sc, tc, ofs)
         THEN LET is_trans == Abs(tc - sc) >= Abs(ofs.tar_cur - ofs.src_cur) IN
              IF is_trans
              THEN [arr |-> arr, trans |-> tr + 1, is_trans |-> TRUE,
                    caused |-> <<[born |-> ofs.born, guarded |-> FALSE]>>]
              ELSE IF ~ofs.trans
                   THEN [arr |-> [arr EXCEPT ![i].trans = TRUE], trans |-> tr + 1,
                         is_trans |-> FALSE,
                         caused |-> <<[born |-> ofs.born, guarded |-> TRUE]>>]
                   ELSE [arr |-> arr, trans |-> tr, is_trans |-> FALSE, caused |-> <<>>]
         ELSE IF Superseded(sc, tc, ofs)
              THEN ScanOffsets(RemoveAt(arr, i), i, sc, tc, tr)
              ELSE ScanOffsets(arr, i + 1, sc, tc, tr)

(* lines 149 and 155: the bound tests that guard the look-ahead's reads *)
AheadInRangeUnguarded(s, k) == TRUE

AheadInRange(s, k) == k < Len(s)

(* lines 144-160: the look-ahead of a mismatch step, from offset i.
   Returns the cursors as they are before the unconditional +1, and the
   character accesses made (short-circuit evaluation respected). *)
RECURSIVE LookAheadInclusive(_, _, _, _, _, _, _)
LookAheadInclusive(s, t, sc, tc, i, mo, rd) ==
    IF i > mo THEN [src_cur |-> sc, tar_cur |-> tc, reads |-> rd]
    ELSE IF ~(AheadInRange(s, sc + i) \/ AheadInRange(t, tc + i))
    THEN [src_cur |-> sc, tar_cur |-> tc, reads |-> rd]
    ELSE LET inS == AheadInRange(s, sc + i)
             rd1 == IF inS THEN rd \cup {<<"src", sc + i>>, <<"tar", tc>>} ELSE rd
         IN
         IF inS /\ CharAt(s, sc + i) = CharAt(t, tc)
         THEN [src_cur |-> sc + i - 1, tar_cur |-> tc - 1, reads |-> rd1]
         ELSE LET inT == AheadInRange(t, tc + i)
                  rd2 == IF inT THEN rd1 \cup {<<"src", sc>>, <<"tar", tc + i>>} ELSE rd1
              IN
              IF inT /\ CharAt(s, sc) = CharAt(t, tc + i)
              THEN [src_cur |-> sc - 1, tar_cur |-> tc + i - 1, reads |-> rd2]
              ELSE LookAheadInclusive(s, t, sc, tc, i + 1, mo, rd2)

RECURSIVE LookAhead(_, _, _, _, _, _, _)
LookAhead(s, t, sc, tc, i, mo, rd) ==
    IF i >= mo THEN [src_cur |-> sc, tar_cur |-> tc, reads |-> rd]
    ELSE IF ~(AheadInRange(s, sc + i) \/ AheadInRange(t, tc + i))
    THEN [src_cur |-> sc, tar_cur |-> tc, reads |-> rd]
    ELSE LET inS == AheadInRange(s, sc + i)
             rd1 == IF inS THEN rd \cup {<<"src", sc + i>>, <<"tar", tc>>} ELSE rd
         IN
         IF inS /\ CharAt(s, sc + i) = CharAt(t, tc)
         THEN [src_cur |-> sc + i - 1, tar_cur |-> tc - 1, reads |-> rd1]
         ELSE LET inT == AheadInRange(t, tc + i)
                  rd2 == IF inT THEN rd1 \cup {<<"src", sc>>, <<"tar", tc + i>>} ELSE rd1
              IN
              IF inT /\ CharAt(s, sc) = CharAt(t, tc + i)
              THEN [src_cur |-> sc - 1, tar_cur |-> tc + i - 1, reads |-> rd2]
              ELSE LookAhead(s, t, sc, tc, i + 1, mo, rd2)

(* lines 165-167: the early-exit test *)
EarlyExitAlways(md, temporary_distance) == temporary_distance >= md

EarlyExit(md, temporary_distance) == md # 0 /\ temporary_distance >= md

(* lines 162-173: the tail shared by both branches of the loop body *)
StepTailNoRealign(s, t, md, st) ==
    LET sc == st.src_cur + 1
        tc == st.tar_cur + 1
        temporary_distance == Max(sc, tc) - st.lcss + st.trans
    IN
    IF EarlyExit(md, temporary_distance)
    THEN [st EXCEPT !.src_cur = sc, !.tar_cur = tc, !.pc = "done",
                    !.result = temporary_distance, !.exit_kind = "early",
                    !.advanced = <<sc, tc>>]
    ELSE IF sc >= Len(s) \/ tc >= Len(t)
    THEN [st EXCEPT !.src_cur = sc, !.tar_cur = tc,
                    !.lcss = st.lcss + st.local_cs, !.local_cs = 0,
                    !.advanced = <<sc, tc>>]
    ELSE [st EXCEPT !.src_cur = sc, !.tar_cur = tc, !.advanced = <<sc, tc>>]

StepTailNoAdvance(s, t, md, st) ==
    LET sc == st.src_cur
        tc == st.tar_cur
        temporary_distance == Max(sc, tc) - st.lcss + st.trans
    IN
    IF EarlyExit(md, temporary_distance)
    THEN [st EXCEPT !.src_cur = sc, !.tar_cur = tc, !.pc = "done",
                    !.result = temporary_distance, !.exit_kind = "early",
                    !.advanced = <<sc, tc>>]
    ELSE IF sc >= Len(s) \/ tc >= Len(t)
    THEN [st EXCEPT !.src_cur = Min(sc, tc), !.tar_cur = Min(sc, tc),
                    !.lcss = st.lcss + st.local_cs, !.local_cs = 0,
                    !.advanced = <<sc, tc>>]
    ELSE [st EXCEPT !.src_cur = sc, !.tar_cur = tc, !.advanced = <<sc, tc>>]

StepTail(s, t, md, st) ==
    LET sc == st.src_cur + 1
        tc == st.tar_cur + 1
        temporary_distance == Max(sc, tc) - st.lcss + st.trans
    IN
    IF EarlyExit(md, temporary_distance)
    THEN [st EXCEPT !.src_cur = sc, !.tar_cur = tc, !.pc = "done",
                    !.result = temporary_distance, !.exit_kind = "early",
                    !.advanced = <<sc, tc>>]
    ELSE IF sc >= Len(s) \/ tc >= Len(t)
    THEN [st EXCEPT !.src_cur = Min(sc, tc), !.tar_cur = Min(sc, tc),
                    !.lcss = st.lcss + st.local_cs, !.local_cs = 0,
                    !.advanced = <<sc, tc>>]
    ELSE [st EXCEPT !.src_cur = sc, !.tar_cur = tc, !.advanced = <<sc, tc>>]

(* lines 115-138, then the tail: a matching step *)
MatchBodyUncounted(s, t, md, st) ==
    LET sc == ScanOffsets(st.offset_arr, 1, st.src_cur, st.tar_cur, st.trans)
        entry == [src_cur |-> st.src_cur, tar_cur |-> st.tar_cur, trans |-> sc.is_trans,
                  born |-> st.steps + 1]
    IN StepTail(s, t, md,
                [st EXCEPT !.trans = sc.trans,
                           !.offset_arr = Append(sc.arr, entry),
                           !.steps = st.steps + 1,
                           !.blame = st.blame \o sc.caused,
                           !.last_step = "match",
                           !.head = <<st.src_cur, st.tar_cur>>,
                           !.reads = {<<"src", st.src_cur>>, <<"tar", st.tar_cur>>}])

MatchBody(s, t, md, st) ==
    LET sc == ScanOffsets(st.offset_arr, 1, st.src_cur, st.tar_cur, st.trans)
        entry == [src_cur |-> st.src_cur, tar_cur |-> st.tar_cur, trans |-> sc.is_trans,
                  born |-> st.steps + 1]
    IN StepTail(s, t, md,
                [st EXCEPT !.local_cs = st.local_cs + 1,
                           !.trans = sc.trans,
                           !.offset_arr = Append(sc.arr, entry),
                           !.steps = st.steps + 1,
                           !.blame = st.blame \o sc.caused,
                           !.last_step = "match",
                           !.head = <<st.src_cur, st.tar_cur>>,
                           !.reads = {<<"src", st.src_cur>>, <<"tar", st.tar_cur>>}])

(* lines 139-160, then the tail: a mismatch step *)
MismatchBodyNoRealign(s, t, mo, md, st) ==
    LET la == LookAhead(s, t, st.src_cur, st.tar_cur, 0, mo,
                        {<<"src", st.src_cur>>, <<"tar", st.tar_cur>>})
    IN StepTail(s, t, md,
                [st EXCEPT !.lcss = st.lcss + st.local_cs,
                           !.local_cs = 0,
                           !.src_cur = la.src_cur,
                           !.tar_cur = la.tar_cur,
                           !.steps = st.steps + 1,
                           !.last_step = "mismatch",
                           !.head = <<st.src_cur, st.tar_cur>>,
                           !.reads = la.reads])

MismatchBodyWider(s, t, mo, md, st) ==
    LET m == Min(st.src_cur, st.tar_cur)
        la == LookAhead(s, t, m, m, 0, mo + 1, {<<"src", st.src_cur>>, <<"tar", st.tar_cur>>})
    IN StepTail(s, t, md,
                [st EXCEPT !.lcss = st.lcss + st.local_cs,
                           !.local_cs = 0,
                           !.src_cur = la.src_cur,
                           !.tar_cur = la.tar_cur,
                           !.steps = st.steps + 1,
                           !.last_step = "mismatch",
                           !.head = <<st.src_cur, st.tar_cur>>,
                           !.reads = la.reads])

MismatchBody(s, t, mo, md, st) ==
    LET m == Min(st.src_cur, st.tar_cur)
        la == LookAhead(s, t, m, m, 0, mo, {<<"src", st.src_cur>>, <<"tar", st.tar_cur>>})
    IN StepTail(s, t, md,
                [st EXCEPT !.lcss = st.lcss + st.local_cs,
                           !.local_cs = 0,
                           !.src_cur = la.src_cur,
                           !.tar_cur = la.tar_cur,
                           !.steps = st.steps + 1,
                           !.last_step = "mismatch",
                           !.head = <<st.src_cur, st.tar_cur>>,
                           !.reads = la.reads])

(* line 114: the loop guard *)
LoopGuard(s, t, st) == st.src_cur < Len(s) /\ st.tar_cur < Len(t)

(* line 115: the matching test *)
IsMatch(s, t, st) == CharAt(s, st.src_cur) = CharAt(t, st.tar_cur)

(* lines 175-176: the final flush and the result *)
FinishBody(s, t, st) ==
    [st EXCEPT !.lcss = st.lcss + st.local_cs,
               !.result = Max(Len(s), Len(t)) - (st.lcss + st.local_cs) + st.trans,
               !.pc = "done", !.exit_kind = "end"]

(* the locals before the call *)
BlankState ==
    [pc |-> "start", src_cur |-> 0, tar_cur |-> 0, lcss |-> 0, local_cs |-> 0,
     trans |-> 0, offset_arr |-> <<>>, result |-> 0, exit_kind |-> "none",
     last_step |-> "none", reads |-> {}, head |-> <<0, 0>>,
     steps |-> 0, advanced |-> <<0, 0>>, blame |-> <<>>]

(* lines 98-112: the empty-input returns and the initialisation of the locals *)
CallBodySwapped(s, t, st) ==
    IF Len(s) = 0 THEN [st EXCEPT !.pc = "done", !.result = Len(s), !.exit_kind = "empty"]
    ELSE IF Len(t) = 0 THEN [st EXCEPT !.pc = "done", !.result = Len(t), !.exit_kind = "empty"]
    ELSE [st EXCEPT !.pc = "loop"]

CallBody(s, t, st) ==
    IF Len(s) = 0 THEN [st EXCEPT !.pc = "done", !.result = Len(t), !.exit_kind = "empty"]
    ELSE IF Len(t) = 0 THEN [st EXCEPT !.pc = "done", !.result = Len(s), !.exit_kind = "empty"]
    ELSE [st EXCEPT !.pc = "loop"]

(* a character access outside its string raises IndexError out of dist_abs *)
Raises(s, t, st) ==
    \E r \in st.reads : IndexError(IF r[1] = "src" THEN s ELSE t, r[2])

Guarded(s, t, st) ==
    IF Raises(s, t, st)
    THEN [st EXCEPT !.pc = "done", !.result = 0, !.exit_kind = "raised"]
    ELSE st

(* one step of dist_abs *)
StepOf(s, t, mo, md, st) ==
    IF st.pc = "start" THEN CallBody(s, t, st)
    ELSE IF ~LoopGuard(s, t, st) THEN FinishBody(s, t, st)
    ELSE IF IsMatch(s, t, st) THEN Guarded(s, t, MatchBody(s, t, md, st))
    ELSE Guarded(s, t, MismatchBody(s, t, mo, md, st))

RECURSIVE RunFrom(_, _, _, _, _)
RunFrom(s, t, mo, md, st) ==
    IF st.pc = "done" THEN st ELSE RunFrom(s, t, mo, md, StepOf(s, t, mo, md, st))

(* the value dist_abs(s, t) returns on an instance configured with (mo, md) *)
dist_abs(s, t, mo, md) == RunFrom(s, t, mo, md, BlankState).result

----------------------------------------------------------------------------
(* The token-set contingency engine *)

EmptyTokens == [t \in Tokens |-> 0]

Multisets == [Tokens -> 0..MaxCount]

Keys(X) == {t \in Tokens : X[t] > 0}

RECURSIVE SetSum(_, _)
SetSum(S, f) ==
    IF S = {} THEN 0
    ELSE LET x == CHOOSE y \in S : TRUE IN f[x] + SetSum(S \ {x}, f)

RECURSIVE Power(_, _)
Power(k, q) == IF q = 0 THEN 1 ELSE k * Power(k, q - 1)

(* card: the sum of the counts of a multiset, not the number of its keys *)
card(X) == SimScale * SetSum(Tokens, X)

(* pairwise similarity metrics: total, symmetric, 1 on identical tokens *)
Metrics ==
    {m \in [Tokens \X Tokens -> 0..SimScale] :
        \A s \in Tokens, u \in Tokens :
            /\ m[<<s, u>>] = m[<<u, s>>]
            /\ s = u => m[<<s, u>>] = SimScale}

(* an exact-match metric: 1 for identical tokens, less than 1 otherwise *)
IsExactMatch(m) ==
    \A s \in Tokens, u \in Tokens :
        IF s = u THEN m[<<s, u>>] = SimScale ELSE m[<<s, u>>] < SimScale

(* the metric that is 1 for identical tokens and 0 otherwise *)
Identity == [p \in Tokens \X Tokens |-> IF p[1] = p[2] THEN SimScale ELSE 0]

(* cutoffs of the threshold mode: 0.5 and 1.0 *)
Thresholds == 1..SimScale

(* population descriptors *)
PopulationDescriptors ==
    { [kind |-> "unresolved"] }
    \cup { [kind |-> "integer", n |-> k] : k \in {0, 2, 26} }
    \cup { [kind |-> "inferred", symbols |-> 3, token_length |-> 2] }
    \cup { [kind |-> "multiset", tokens |-> [t \in Tokens |-> k]] : k \in {1, 2 * MaxCount} }

(* the descriptors tried together with every metric *)
MetricPopulations == { [kind |-> "unresolved"], [kind |-> "integer", n |-> 26] }

(* the configurations an instance can be constructed with *)
Configurations ==
    { [intersection_type |-> "crisp", metric |-> Identity, threshold |-> SimScale,
       alphabet |-> al] : al \in PopulationDescriptors }
    \cup { [intersection_type |-> "fuzzy", metric |-> m, threshold |-> th, alphabet |-> al] :
           m \in Metrics, th \in Thresholds, al \in MetricPopulations }
    \cup { [intersection_type |-> "soft", metric |-> m, threshold |-> SimScale,
            alphabet |-> al] : m \in Metrics, al \in MetricPopulations }

(* population size n: 0 when unresolved *)
population_card(cfg) ==
    LET al == cfg.alphabet IN
    CASE al.kind = "unresolved" -> 0
      [] al.kind = "integer" -> SimScale * al.n
      [] al.kind = "inferred" -> SimScale * Power(al.symbols, al.token_length)
      [] al.kind = "multiset" -> card(al.tokens)

(* exact mode: hash join of the smaller multiset against the other,
   summing the smaller of the two counts of every shared token *)
CrispNoMin(Xs, Xt) ==
    LET swap == Cardinality(Keys(Xt)) < Cardinality(Keys(Xs))
        small == IF swap THEN Xt ELSE Xs
        other == IF swap THEN Xs ELSE Xt
    IN SimScale * SetSum(Keys(small) \cap Keys(other), small)

Crisp(Xs, Xt) ==
    LET swap == Cardinality(Keys(Xt)) < Cardinality(Keys(Xs))
        small == IF swap THEN Xt ELSE Xs
        other == IF swap THEN Xs ELSE Xt
    IN SimScale * SetSum(Keys(small), [t \in Tokens |-> Min(small[t], other[t])])

(* threshold mode: a pair of tokens matches iff its similarity meets the cutoff *)
MeetsStrict(cfg, s, u) == cfg.metric[<<s, u>>] > cfg.threshold

Meets(cfg, s, u) == cfg.metric[<<s, u>>] >= cfg.threshold

(* threshold mode, one source token s with rs unclaimed units: the targets
   are tried in the fixed order from position j; a match claims
   min(unclaimed of s, unclaimed of the target), which is not reused *)
RECURSIVE FuzzyTargetsReuse(_, _, _, _, _, _)
FuzzyTargetsReuse(cfg, s, rs, j, remT, acc) ==
    IF j > Len(TokenOrder) \/ rs = 0 THEN [remT |-> remT, acc |-> acc]
    ELSE LET u == TokenOrder[j]
             m == IF Meets(cfg, s, u) THEN Min(rs, remT[u]) ELSE 0
         IN FuzzyTargetsReuse(cfg, s, rs - m, j + 1, remT, acc + m)

RECURSIVE FuzzyTargets(_, _, _, _, _, _)
FuzzyTargets(cfg, s, rs, j, remT, acc) ==
    IF j > Len(TokenOrder) \/ rs = 0 THEN [remT |-> remT, acc |-> acc]
    ELSE LET u == TokenOrder[j]
             m == IF Meets(cfg, s, u) THEN Min(rs, remT[u]) ELSE 0
         IN FuzzyTargets(cfg, s, rs - m, j + 1, [remT EXCEPT ![u] = remT[u] - m], acc + m)

(* threshold mode: the source tokens in the fixed order from position i *)
RECURSIVE FuzzySources(_, _, _, _, _)
FuzzySources(cfg, Xs, i, remT, acc) ==
    IF i > Len(TokenOrder) THEN acc
    ELSE LET s == TokenOrder[i]
             r == FuzzyTargets(cfg, s, Xs[s], 1, remT, acc)
         IN FuzzySources(cfg, Xs, i + 1, r.remT, r.acc)

Fuzzy(cfg, Xs, Xt) == SimScale * FuzzySources(cfg, Xs, 1, Xt, 0)

(* threshold mode, the same pass with its bookkeeping kept: what every
   source token has claimed and what is left unclaimed of every target *)
RECURSIVE FuzzyClaims(_, _, _, _, _)
FuzzyClaims(cfg, Xs, i, remT, claimed) ==
    IF i > Len(TokenOrder) THEN [remT |-> remT, claimed |-> claimed]
    ELSE LET s == TokenOrder[i]
             r == FuzzyTargets(cfg, s, Xs[s], 1, remT, 0)
         IN FuzzyClaims(cfg, Xs, i + 1, r.remT, [claimed EXCEPT ![s] = r.acc])

(* weighted mode: the bilinear sum over the cross product of the keys *)
SoftProduct(cfg, Xs, Xt) ==
    SetSum(Keys(Xs) \X Keys(Xt),
           [p \in Tokens \X Tokens |-> cfg.metric[p] * Xs[p[1]] * Xt[p[2]]])

Soft(cfg, Xs, Xt) ==
    SetSum(Keys(Xs) \X Keys(Xt),
           [p \in Tokens \X Tokens |-> cfg.metric[p] * Min(Xs[p[1]], Xt[p[2]])])

(* the accessors of the engine, as functions of the instance *)
Instance == [params |-> params, src_tokens |-> src_tokens, tar_tokens |-> tar_tokens]

intersection_card(inst) ==
    CASE inst.params.intersection_type = "crisp" -> Crisp(inst.src_tokens, inst.tar_tokens)
      [] inst.params.intersection_type = "fuzzy" ->
            Fuzzy(inst.params, inst.src_tokens, inst.tar_tokens)
      [] inst.params.intersection_type = "soft" ->
            Soft(inst.params, inst.src_tokens, inst.tar_tokens)

src_card(inst) == card(inst.src_tokens)

tar_card(inst) == card(inst.tar_tokens)

src_only_card(inst) == src_card(inst) - intersection_card(inst)

tar_only_card(inst) == tar_card(inst) - intersection_card(inst)

total_complement_card(inst) ==
    IF population_card(inst.params) = 0 THEN 0
    ELSE population_card(inst.params) - intersection_card(inst)
           - src_only_card(inst) - tar_only_card(inst)

(* Doolittle.sim, lines 174-177: the four cardinalities the formula reads *)
DoolittleReadsSlip(inst) ==
    [measure |-> "Doolittle",
     a |-> intersection_card(inst),
     b |-> src_only_card(inst),
     c |-> src_only_card(inst),
     d |-> total_complement_card(inst),
     n |-> population_card(inst.params)]

DoolittleReads(inst) ==
    [measure |-> "Doolittle",
     a |-> intersection_card(inst),
     b |-> src_only_card(inst),
     c |-> tar_only_card(inst),
     d |-> total_complement_card(inst),
     n |-> population_card(inst.params)]

(* TullossS.sim, lines 138-140: the three cardinalities the formula reads *)
TullossSReads(inst) ==
    [measure |-> "TullossS",
     a |-> intersection_card(inst),
     b |-> src_only_card(inst),
     c |-> tar_only_card(inst),
     d |-> 0,
     n |-> population_card(inst.params)]

(* TullossS.sim, line 142: the argument of the logarithm,
   2 + min(b, c) / (a + 1), as a fraction *)
TullossSArgNoShift(r) ==
    [num |-> 2 * r.a + Min(r.b, r.c), den |-> r.a]

TullossSArg(r) ==
    [num |-> 2 * (r.a + SimScale) + Min(r.b, r.c), den |-> r.a + SimScale]

(* TullossS.sim, line 142: 1 / log(arg, 2) ** 0.5. The quotient raises
   ZeroDivisionError on a zero divisor, log raises ValueError on an argument
   that is not positive, a negative logarithm has a complex square root, a
   zero logarithm is a zero divisor; otherwise the value is above 1, 1 or
   below 1 as the argument is below 2, 2 or above 2 *)
TullossSValue(r) ==
    LET g == TullossSArg(r)
        sq == g.den * g.den
    IN IF g.den = 0 THEN [kind |-> "raised", size |-> "none"]
       ELSE IF g.num * g.den <= 0 THEN [kind |-> "raised", size |-> "none"]
       ELSE IF g.num * g.den < sq THEN [kind |-> "complex", size |-> "none"]
       ELSE IF g.num * g.den = sq THEN [kind |-> "raised", size |-> "none"]
       ELSE IF g.num * g.den < 2 * sq THEN [kind |-> "value", size |-> "above_one"]
       ELSE IF g.num * g.den = 2 * sq THEN [kind |-> "value", size |-> "one"]
       ELSE [kind |-> "value", size |-> "below_one"]

NoCards == [measure |-> "none", a |-> 0, b |-> 0, c |-> 0, d |-> 0, n |-> 0]

(* outcomes of a formula: a float, held as sign and square num/den, or a
   raised ZeroDivisionError *)
Raised == [kind |-> "raised", sign |-> 0, num |-> 0, den |-> 1]

Zero == [kind |-> "value", sign |-> 0, num |-> 0, den |-> 1]

NoValue == [kind |-> "none", sign |-> 0, num |-> 0, den |-> 1]

Sign(k) == IF k > 0 THEN 1 ELSE IF k < 0 THEN 0 - 1 ELSE 0

SameValue(v, w) ==
    /\ v.kind = w.kind
    /\ v.sign = w.sign
    /\ v.num * w.den = w.num * v.den

(* Doolittle.sim, line 179: the numerator and the denominator of the formula
   as coded *)
DoolittleNumSum(r) == (r.a * r.d + r.b * r.c) * (r.a * r.d + r.b * r.c)

DoolittleNum(r) == (r.a * r.d - r.b * r.c) * (r.a * r.d - r.b * r.c)

DoolittleDen(r) == (r.a + r.b) * (r.a + r.c) * (r.b + r.d) * (r.c + r.d)

(* Doolittle, class docstring lines 42-53: the formula as documented, in
   a+b+c+d=n terms and in set terms *)
DocumentedNum(r) ==
    (r.a * r.n - (r.a + r.b) * (r.a + r.c)) * (r.a * r.n - (r.a + r.b) * (r.a + r.c))

DocumentedDen(r) ==
    (r.a + r.b) * (r.a + r.c) * (r.n - (r.a + r.c)) * (r.n - (r.a + r.b))

(* Doolittle.sim, line 179: the division is not guarded *)
DoolittleValue(inst) ==
    LET r == DoolittleReads(inst)
        den == DoolittleDen(r)
        num == DoolittleNum(r)
    IN IF den = 0 THEN Raised
       ELSE [kind |-> "value", sign |-> Sign(num), num |-> num, den |-> den]

(* the population cardinality Dennis divides by *)
population_unique_cardFromTokens(inst) ==
    IF population_card(inst.params) = 0
    THEN src_card(inst) + tar_card(inst) - intersection_card(inst)
    ELSE population_card(inst.params)

population_unique_card(inst) == population_card(inst.params)

(* Dennis.sim_score, lines 146-157, after tokenize: with k = a*n - |X|*|Y|
   the score is k / sqrt(n * |X| * |Y|), held as its sign and its square *)
DennisScore(inst) ==
    LET a == intersection_card(inst)
        ab == src_card(inst)
        ac == tar_card(inst)
        n == population_unique_card(inst)
        k == a * n - ab * ac
    IN IF n = 0 THEN Raised
       ELSE IF k = 0 THEN Zero
       ELSE IF ab * ac = 0 THEN Raised
       ELSE [kind |-> "value", sign |-> Sign(k), num |-> k * k, den |-> n * ab * ac]

(* Dennis.corr, line 190: the score divided by the square root of n *)
DennisCorr(score, inst) ==
    LET n == population_unique_card(inst)
    IN IF score.kind = "raised" THEN Raised
       ELSE IF n = 0 THEN Raised
       ELSE [score EXCEPT !.den = score.den * n]

(* the token multisets the callers compare *)
CallTokens ==
    { EmptyTokens,
      [t \in Tokens |-> IF t \in {"x", "y"} THEN 1 ELSE 0],
      [t \in Tokens |-> IF t \in {"y", "z"} THEN 1 ELSE 0] }

(* the callers of the shared instance *)
Threads == {"t1", "t2"}

Measures == {"Doolittle", "Dennis"}

(* the configurations the callers' instance is constructed with *)
CallerConfigurations == {cfg \in Configurations : cfg.intersection_type = "crisp"}

IdleCall ==
    [pc |-> "idle", measure |-> "none", src |-> EmptyTokens, tar |-> EmptyTokens,
     value |-> NoValue]

(* Dennis.sim_score, line 141: not src and not tar *)
BothEmpty(c) == c.src = EmptyTokens /\ c.tar = EmptyTokens

(* the instance a call would see if it ran alone *)
Alone(cfg, c) == [params |-> cfg, src_tokens |-> c.src, tar_tokens |-> c.tar]

(* the score Dennis.sim_score returns when the call runs alone *)
AloneScore(cfg, c) ==
    IF BothEmpty(c) THEN Zero ELSE DennisScore(Alone(cfg, c))

(* the value the call returns when it runs alone *)
AloneValue(cfg, c) ==
    IF c.measure = "Doolittle" THEN DoolittleValue(Alone(cfg, c))
    ELSE DennisCorr(AloneScore(cfg, c), Alone(cfg, c))

(* the instance between comparisons, with the default configuration *)
EngineIdle ==
    /\ params = [intersection_type |-> "crisp", metric |-> Identity,
                 threshold |-> SimScale, alphabet |-> [kind |-> "unresolved"]]
    /\ src_tokens = EmptyTokens
    /\ tar_tokens = EmptyTokens
    /\ epc = "idle"
    /\ cards = NoCards
    /\ calls = [t \in Threads |-> IdleCall]

----------------------------------------------------------------------------
(* The scanner as a state machine *)

Cur ==
    [pc |-> pc, src_cur |-> src_cur, tar_cur |-> tar_cur, lcss |-> lcss,
     local_cs |-> local_cs, trans |-> trans, offset_arr |-> offset_arr,
     result |-> result, exit_kind |-> exit_kind, last_step |-> last_step,
     reads |-> reads, head |-> head, steps |-> steps, advanced |-> advanced,
     blame |-> blame]

Become(st) ==
    /\ pc' = st.pc
    /\ src_cur' = st.src_cur
    /\ tar_cur' = st.tar_cur
    /\ lcss' = st.lcss
    /\ local_cs' = st.local_cs
    /\ trans' = st.trans
    /\ offset_arr' = st.offset_arr
    /\ result' = st.result
    /\ exit_kind' = st.exit_kind
    /\ last_step' = st.last_step
    /\ reads' = st.reads
    /\ head' = st.head
    /\ steps' = st.steps
    /\ advanced' = st.advanced
    /\ blame' = st.blame
    /\ UNCHANGED <<src, tar, max_offset, max_distance>>
    /\ UNCHANGED engine_vars

SiftInit ==
    /\ EngineIdle
    /\ \/ /\ src \in Strings
          /\ tar \in Strings
          /\ max_offset \in 0..MaxOffsetBound
          /\ max_distance \in 0..MaxDistanceBound
       \/ /\ \E ex \in DocExamples : src = ex.src /\ tar = ex.tar
          /\ max_offset = DefaultMaxOffset
          /\ max_distance = DefaultMaxDistance
       \/ /\ \E ex \in TranspositionExamples : src = ex.src /\ tar = ex.tar
          /\ max_offset \in 0..MaxOffsetBound
          /\ max_distance \in 0..MaxDistanceBound
    /\ pc = BlankState.pc
    /\ src_cur = BlankState.src_cur
    /\ tar_cur = BlankState.tar_cur
    /\ lcss = BlankState.lcss
    /\ local_cs = BlankState.local_cs
    /\ trans = BlankState.trans
    /\ offset_arr = BlankState.offset_arr
    /\ result = BlankState.result
    /\ exit_kind = BlankState.exit_kind
    /\ last_step = BlankState.last_step
    /\ reads = BlankState.reads
    /\ head = BlankState.head
    /\ steps = BlankState.steps
    /\ advanced = BlankState.advanced
    /\ blame = BlankState.blame

Call ==
    /\ pc = "start"
    /\ Become(CallBody(src, tar, Cur))

MatchStep ==
    /\ pc = "loop"
    /\ LoopGuard(src, tar, Cur)
    /\ IsMatch(src, tar, Cur)
    /\ Become(Guarded(src, tar, MatchBody(src, tar, max_distance, Cur)))

MismatchStep ==
    /\ pc = "loop"
    /\ LoopGuard(src, tar, Cur)
    /\ ~IsMatch(src, tar, Cur)
    /\ Become(Guarded(src, tar, MismatchBody(src, tar, max_offset, max_distance, Cur)))

Finish ==
    /\ pc = "loop"
    /\ ~LoopGuard(src, tar, Cur)
    /\ Become(FinishBody(src, tar, Cur))

SiftNext == Call \/ MatchStep \/ MismatchStep \/ Finish

SiftSpec == SiftInit /\ [][SiftNext]_vars

----------------------------------------------------------------------------
(* The engine as a state machine: one measure instance, one caller *)

SiftIdle ==
    /\ src = <<>> /\ tar = <<>>
    /\ max_offset = DefaultMaxOffset /\ max_distance = DefaultMaxDistance
    /\ pc = BlankState.pc
    /\ src_cur = BlankState.src_cur
    /\ tar_cur = BlankState.tar_cur
    /\ lcss = BlankState.lcss
    /\ local_cs = BlankState.local_cs
    /\ trans = BlankState.trans
    /\ offset_arr = BlankState.offset_arr
    /\ result = BlankState.result
    /\ exit_kind = BlankState.exit_kind
    /\ last_step = BlankState.last_step
    /\ reads = BlankState.reads
    /\ head = BlankState.head
    /\ steps = BlankState.steps
    /\ advanced = BlankState.advanced
    /\ blame = BlankState.blame

EngineInit ==
    /\ SiftIdle
    /\ params \in Configurations
    /\ src_tokens = EmptyTokens
    /\ tar_tokens = EmptyTokens
    /\ epc = "idle"
    /\ cards = NoCards
    /\ calls = [t \in Threads |-> IdleCall]

(* self.tokenize(src, tar): the token multisets are stored on the instance *)
Tokenize ==
    /\ epc = "idle"
    /\ \E Xs \in Multisets, Xt \in Multisets :
          /\ src_tokens' = Xs
          /\ tar_tokens' = Xt
    /\ epc' = "tokenized"
    /\ UNCHANGED <<params, cards, calls>>
    /\ UNCHANGED sift_vars

(* Doolittle.sim after tokenize: a, b, c and d are read from the instance *)
DoolittleSim ==
    /\ epc = "tokenized"
    /\ cards' = DoolittleReads(Instance)
    /\ epc' = "returned"
    /\ UNCHANGED <<params, src_tokens, tar_tokens, calls>>
    /\ UNCHANGED sift_vars

(* TullossS.sim after tokenize: a, b and c are read from the instance *)
TullossSSim ==
    /\ epc = "tokenized"
    /\ cards' = TullossSReads(Instance)
    /\ epc' = "returned"
    /\ UNCHANGED <<params, src_tokens, tar_tokens, calls>>
    /\ UNCHANGED sift_vars

EngineNext == Tokenize \/ DoolittleSim \/ TullossSSim

EngineSpec == EngineInit /\ [][EngineNext]_vars

----------------------------------------------------------------------------
(* Comparisons by several callers on one measure instance *)

CallersInit ==
    /\ SiftIdle
    /\ params \in CallerConfigurations
    /\ src_tokens = EmptyTokens
    /\ tar_tokens = EmptyTokens
    /\ epc = "idle"
    /\ cards = NoCards
    /\ calls = [t \in Threads |-> IdleCall]

(* what a step of caller t leaves alone, besides the instance's tokens *)
CallFrame == UNCHANGED <<params, epc, cards>> /\ UNCHANGED sift_vars

(* caller t invokes Doolittle.sim(src, tar) or Dennis.corr(src, tar) *)
EnterCall(t) ==
    /\ calls[t].pc = "idle"
    /\ \E m \in Measures, Xs \in CallTokens, Xt \in CallTokens :
          calls' = [calls EXCEPT ![t] = [pc |-> "entered", measure |-> m, src |-> Xs,
                                         tar |-> Xt, value |-> NoValue]]
    /\ UNCHANGED <<src_tokens, tar_tokens>>
    /\ CallFrame

(* a caller invokes the instance while no other comparison is in progress *)
EnterAlone(t) ==
    /\ \A u \in Threads : calls[u].pc = "idle"
    /\ EnterCall(t)

(* Dennis.sim_score, lines 141-142: 0.0 for two empty inputs, before tokenize *)
DennisEmptyScore(t) ==
    /\ calls[t].pc = "entered"
    /\ calls[t].measure = "Dennis" /\ BothEmpty(calls[t])
    /\ calls' = [calls EXCEPT ![t].pc = "scored", ![t].value = Zero]
    /\ UNCHANGED <<src_tokens, tar_tokens>>
    /\ CallFrame

(* Doolittle.sim line 172, Dennis.sim_score line 144: tokenize stores the
   caller's token multisets on the instance *)
TokenizeCall(t) ==
    /\ calls[t].pc = "entered"
    /\ ~(calls[t].measure = "Dennis" /\ BothEmpty(calls[t]))
    /\ src_tokens' = calls[t].src
    /\ tar_tokens' = calls[t].tar
    /\ calls' = [calls EXCEPT ![t].pc = "tokenized"]
    /\ CallFrame

(* Doolittle.sim, lines 174-179: the cardinalities are read from the instance *)
DoolittleReturn(t) ==
    /\ calls[t].pc = "tokenized"
    /\ calls[t].measure = "Doolittle"
    /\ calls' = [calls EXCEPT ![t].pc = "returned", ![t].value = DoolittleValue(Instance)]
    /\ UNCHANGED <<src_tokens, tar_tokens>>
    /\ CallFrame

(* Dennis.sim_score, lines 146-157 *)
DennisScored(t) ==
    /\ calls[t].pc = "tokenized"
    /\ calls[t].measure = "Dennis"
    /\ calls' = [calls EXCEPT ![t].pc = "scored", ![t].value = DennisScore(Instance)]
    /\ UNCHANGED <<src_tokens, tar_tokens>>
    /\ CallFrame

(* Dennis.corr, line 190: the population cardinality is read from the instance *)
DennisReturn(t) ==
    /\ calls[t].pc = "scored"
    /\ calls' = [calls EXCEPT ![t].pc = "returned",
                              ![t].value = DennisCorr(calls[t].value, Instance)]
    /\ UNCHANGED <<src_tokens, tar_tokens>>
    /\ CallFrame

(* the caller has taken the value and is ready for its next comparison *)
LeaveCall(t) ==
    /\ calls[t].pc = "returned"
    /\ calls' = [calls EXCEPT ![t] = IdleCall]
    /\ UNCHANGED <<src_tokens, tar_tokens>>
    /\ CallFrame

(* comparisons invoked from several threads without locking *)
ConcurrentNext ==
    \E t \in Threads :
        \/ EnterCall(t)
        \/ DennisEmptyScore(t)
        \/ TokenizeCall(t)
        \/ DoolittleReturn(t)
        \/ DennisScored(t)
        \/ DennisReturn(t)
        \/ LeaveCall(t)

ConcurrentSpec == CallersInit /\ [][ConcurrentNext]_vars

(* comparisons invoked one after the other *)
SequentialNext ==
    \E t \in Threads :
        \/ EnterAlone(t)
        \/ DennisEmptyScore(t)
        \/ TokenizeCall(t)
        \/ DoolittleReturn(t)
        \/ DennisScored(t)
        \/ DennisReturn(t)
        \/ LeaveCall(t)

SequentialSpec == CallersInit /\ [][SequentialNext]_vars

----------------------------------------------------------------------------
(* Properties of the Sift4 scanner *)

Default == max_offset = DefaultMaxOffset /\ max_distance = DefaultMaxDistance

(* C1: with the default configuration, dist_abs returns the values of its
   doctest: 1 for cat/hat, 2 for Niall/Neil, 3 for aluminum/Catalan and 2
   for ATCG/TAGC. *)
C1_DoctestValues ==
    (pc = "done" /\ Default) =>
        \A ex \in DocExamples : (src = ex.src /\ tar = ex.tar) => result = ex.expected

(* C2: with max_distance = 0, comparing a string with itself takes only
   matching steps at equal cursors, counts no transposition, and returns 0
   with lcss equal to the length of the string. *)
C2_IdenticalIsZero ==
    (src = tar /\ max_distance = 0) =>
        /\ last_step # "mismatch"
        /\ src_cur = tar_cur
        /\ trans = 0
        /\ pc = "done" => (result = 0 /\ lcss = Len(src))

C2_Witness ==
    /\ src = tar /\ Len(src) >= 3 /\ max_distance = 0
    /\ pc = "done" /\ exit_kind = "end" /\ last_step = "match"

(* C3: if the source is empty the result is len(tar), if the target is
   empty it is len(src), whatever max_offset and max_distance are, and the
   scan loop is never entered. *)
C3_EmptyInput ==
    (pc = "done" /\ (Len(src) = 0 \/ Len(tar) = 0)) =>
        /\ Len(src) = 0 => result = Len(tar)
        /\ Len(tar) = 0 => result = Len(src)
        /\ exit_kind = "empty"
        /\ last_step = "none"

C3_Witness ==
    /\ pc = "done" /\ Len(src) = 0 /\ Len(tar) >= 2
    /\ max_distance > 0 /\ max_distance <= Len(tar)

(* C4: the scanner never raises: every character access of the matching
   test and of the look-ahead is at an index within its string, and every
   iteration of the loop starts with both cursors within their strings. *)
C4_NeverFails ==
    /\ exit_kind # "raised"
    /\ \A r \in reads :
          /\ r[1] = "src" => (0 <= r[2] /\ r[2] < Len(src))
          /\ r[1] = "tar" => (0 <= r[2] /\ r[2] < Len(tar))
    /\ last_step # "none" =>
          /\ 0 <= head[1] /\ head[1] < Len(src)
          /\ 0 <= head[2] /\ head[2] < Len(tar)
    /\ pc = "loop" =>
          /\ 0 <= src_cur /\ src_cur <= Len(src)
          /\ 0 <= tar_cur /\ tar_cur <= Len(tar)

(* a mismatch step whose look-ahead ran to the last offset near the end of
   the shorter string *)
C4_Witness ==
    /\ last_step = "mismatch"
    /\ max_offset >= 2
    /\ Len(src) # Len(tar)
    /\ \E r \in reads : r[1] = "tar" /\ r[2] = Len(tar) - 1 /\ r[2] > head[2]

(* C5: the value returned with max_distance = K > 0 is either the value the
   same call returns with max_distance = 0, or the provisional estimate
   max(src_cur, tar_cur) - lcss + trans of an early exit, which is >= K;
   with max_distance = 0 the early exit never fires. *)
C5_BoundedOrEarly ==
    pc = "done" =>
        IF exit_kind = "early"
        THEN /\ max_distance > 0
             /\ result >= max_distance
             /\ result = Max(src_cur, tar_cur) - lcss + trans
        ELSE result = dist_abs(src, tar, max_offset, 0)

C5_Witness ==
    /\ pc = "done" /\ exit_kind = "early"
    /\ max_distance > 1
    /\ result # dist_abs(src, tar, max_offset, 0)

(* C6: for non-empty strings and K > 0, if the result with max_distance = 0
   is below K then the call with max_distance = K returns that same result. *)
C6_AtMostKTest ==
    (/\ pc = "done" /\ max_distance > 0
     /\ Len(src) > 0 /\ Len(tar) > 0
     /\ dist_abs(src, tar, max_offset, 0) < max_distance) =>
        result = dist_abs(src, tar, max_offset, 0)

(* the last iteration advanced a cursor to or beyond the end of its string *)
ReachedEnd ==
    /\ last_step # "none"
    /\ exit_kind \in {"none", "end"}
    /\ (advanced[1] >= Len(src) \/ advanced[2] >= Len(tar))

(* C16: once, after a step, src_cur >= len(src) or tar_cur >= len(tar), no
   further matching or mismatch step is executed; the trailing local common
   length is flushed and the result is max(len(src), len(tar)) - lcss + trans. *)
C16_EndsAtFirstEnd ==
    /\ (pc = "loop" /\ ReachedEnd) => ~LoopGuard(src, tar, Cur)
    /\ (pc = "done" /\ exit_kind = "end") =>
          result = Max(Len(src), Len(tar)) - lcss + trans

(* C16 as amended: a step that advances a cursor to the end of its string
   flushes local_cs into lcss and moves both cursors back to their minimum;
   the loop ends only when the guard fails at the realigned cursors, and the
   result is then max(len(src), len(tar)) - lcss + trans with nothing left
   in local_cs. *)
C16_EndsAfterRealignment ==
    /\ (pc = "loop" /\ ReachedEnd) =>
          /\ local_cs = 0
          /\ src_cur = Min(advanced[1], advanced[2])
          /\ tar_cur = Min(advanced[1], advanced[2])
    /\ (pc = "done" /\ exit_kind = "end") =>
          /\ ReachedEnd
          /\ ~LoopGuard(src, tar, Cur)
          /\ local_cs = 0
          /\ result = Max(Len(src), Len(tar)) - lcss + trans

(* a cursor reached the end of its string, and another iteration follows *)
C16_Witness ==
    /\ pc = "loop" /\ ReachedEnd
    /\ LoopGuard(src, tar, Cur)
    /\ lcss > 0

(* C17: over a whole scan, no single offset-history entry is the cause of
   more than one increment of trans. *)
C17_OncePerEntry ==
    \A i \in DOMAIN blame, j \in DOMAIN blame :
        i # j => blame[i].born # blame[j].born

(* C17 as amended: every increment of trans is made in a matching step on
   account of one history entry, and no entry is the cause of more than one
   increment behind its flag (line 129); the increments of line 126, made
   when the gap of the new pair is at least the gap of the entry, are not
   behind the flag. *)
C17_OncePerEntryBehindFlag ==
    /\ Len(blame) = trans
    /\ \A i \in DOMAIN blame, j \in DOMAIN blame :
          (i # j /\ blame[i].guarded /\ blame[j].guarded) =>
              blame[i].born # blame[j].born

(* one entry has caused an increment behind its flag and another one past it *)
C17_Witness ==
    \E i \in DOMAIN blame, j \in DOMAIN blame :
        /\ i # j
        /\ blame[i].born = blame[j].born
        /\ blame[i].guarded /\ ~blame[j].guarded

(* the minimum of the two cursors a step starts from *)
Realigned == Min(src_cur, tar_cur)

(* offset i resynchronises on the source side, respectively the target side *)
SrcReappears(i) ==
    Realigned + i < Len(src) /\ CharAt(src, Realigned + i) = CharAt(tar, Realigned)

TarReappears(i) ==
    Realigned + i < Len(tar) /\ CharAt(src, Realigned) = CharAt(tar, Realigned + i)

Resyncs == {i \in 0..(max_offset - 1) : SrcReappears(i) \/ TarReappears(i)}

(* where the iteration after a mismatch step starts *)
ResyncPoint ==
    IF Resyncs = {} THEN <<Realigned + 1, Realigned + 1>>
    ELSE LET i == CHOOSE k \in Resyncs : \A l \in Resyncs : k <= l
         IN IF SrcReappears(i) THEN <<Realigned + i, Realigned>>
                               ELSE <<Realigned, Realigned + i>>

(* C19: a mismatch step flushes the local common length into lcss, and
   leaves the cursors at the resynchronisation point of the smallest
   look-ahead offset below max_offset counted from the minimum of the two
   cursors (source side tried first), or one past that minimum when there is
   none; after a resynchronisation the next iteration is a matching step. *)
C19_MismatchResyncs ==
    [][(pc = "loop" /\ steps' = steps + 1 /\ last_step' = "mismatch") =>
          /\ lcss' = lcss + local_cs
          /\ local_cs' = 0
          /\ <<src_cur', tar_cur'>> = ResyncPoint
          /\ (Resyncs # {} /\ pc' = "loop") =>
                /\ src_cur' < Len(src) /\ tar_cur' < Len(tar)
                /\ CharAt(src, src_cur') = CharAt(tar, tar_cur')]_vars

(* a mismatch step that started from unequal cursors has resynchronised on
   the target side at a positive offset *)
C19_Witness ==
    /\ pc = "loop" /\ last_step = "mismatch"
    /\ head[1] # head[2]
    /\ src_cur = Min(head[1], head[2])
    /\ tar_cur > src_cur
    /\ LoopGuard(src, tar, Cur) /\ IsMatch(src, tar, Cur)

(* the number of loop iterations a call may take *)
Budget == 2 * Min(Len(src), Len(tar))

(* C20: every call returns, after at most 2 * min(len(src), len(tar)) loop
   iterations: the count of iterations never exceeds the budget, so the loop
   cannot go on for ever, a matching step leaves
   the minimum of the two cursors above the minimum it started from, and a
   mismatch step either does so too or keeps the minimum and is followed by
   a matching step. *)
C20_TerminatesWithinBudget ==
    /\ steps <= Budget
    /\ last_step = "match" =>
          Min(src_cur, tar_cur) > Min(head[1], head[2])
    /\ (last_step = "mismatch" /\ pc = "loop") =>
          \/ Min(src_cur, tar_cur) > Min(head[1], head[2])
          \/ /\ Min(src_cur, tar_cur) = Min(head[1], head[2])
             /\ LoopGuard(src, tar, Cur) /\ IsMatch(src, tar, Cur)

(* a call that used its whole budget has returned *)
C20_Witness ==
    /\ pc = "done" /\ exit_kind = "end"
    /\ steps = Budget /\ steps >= 4

(* the history as the last matching step left it, without the entry it appended *)
OlderEntries == SubSeq(offset_arr, 1, Len(offset_arr) - 1)

(* both cursors of the pair matched last are beyond both cursors of entry e *)
EntirelySuperseded(e) ==
    /\ head[1] > e.tar_cur /\ head[2] > e.src_cur
    /\ head[1] > e.src_cur /\ head[2] > e.tar_cur

(* position of the first older entry that the pair matched last overlaps,
   where the scan of the history stopped *)
ScanStop ==
    LET stops == {k \in DOMAIN OlderEntries : Overlaps(head[1], head[2], OlderEntries[k])}
    IN IF stops = {} THEN Len(OlderEntries) + 1
       ELSE CHOOSE k \in stops : \A l \in stops : k <= l

(* C18: after every matching step the history holds no entry, other than
   the one just appended, whose two cursors are both below both cursors of
   the new matched pair. *)
C18_SupersededEvicted ==
    last_step = "match" =>
        \A k \in DOMAIN OlderEntries : ~EntirelySuperseded(OlderEntries[k])

(* C18 as amended: the scan of the history stops at the first entry that the
   new pair overlaps; after every matching step no entry before that one is
   entirely superseded by the new pair, while entries behind it are not
   examined and stay. *)
C18_SupersededEvictedUpToStop ==
    last_step = "match" =>
        \A k \in DOMAIN OlderEntries :
            k < ScanStop => ~EntirelySuperseded(OlderEntries[k])

(* an entirely superseded entry stays behind the entry the scan stopped at *)
C18_Witness ==
    /\ last_step = "match"
    /\ \E k \in DOMAIN OlderEntries :
          k > ScanStop /\ EntirelySuperseded(OlderEntries[k])

(* the state is a loop head that an iteration has led to *)
NextLoopHead == pc = "loop" /\ last_step # "none"

(* C21: between consecutive loop heads the minimum of the two cursors never
   decreases, and a cursor that moves backward moves back by at most
   max_offset - 1 positions. *)
C21_BoundedBacktracking ==
    NextLoopHead =>
        /\ Min(src_cur, tar_cur) >= Min(head[1], head[2])
        /\ src_cur < head[1] => head[1] - src_cur <= max_offset - 1
        /\ tar_cur < head[2] => head[2] - tar_cur <= max_offset - 1

(* a cursor has moved back by the whole max_offset - 1 *)
C21_Witness ==
    /\ NextLoopHead /\ max_offset >= 2
    /\ \/ head[1] - src_cur = max_offset - 1
       \/ head[2] - tar_cur = max_offset - 1

(* C24: with max_distance = 0 and two non-empty strings, throughout the
   scan trans <= lcss + local_cs <= min(len(src), len(tar)), and the result
   d satisfies |len(src) - len(tar)| <= d <= max(len(src), len(tar)). *)
C24_ResultInRange ==
    (max_distance = 0 /\ Len(src) > 0 /\ Len(tar) > 0) =>
        /\ trans <= lcss + local_cs
        /\ lcss + local_cs <= Min(Len(src), Len(tar))
        /\ pc = "done" =>
              /\ result \in Int
              /\ Abs(Len(src) - Len(tar)) <= result
              /\ result <= Max(Len(src), Len(tar))

(* an unbounded scan that counted a transposition has returned *)
C24_Witness ==
    /\ max_distance = 0 /\ pc = "done" /\ exit_kind = "end"
    /\ trans > 0 /\ Len(src) # Len(tar)

(* C25: at every loop head the two cursors are at most max_offset - 1
   apart, and not apart at all when max_offset is 0. *)
C25_CursorGap ==
    pc = "loop" => Abs(src_cur - tar_cur) <= Max(0, max_offset - 1)

(* a matching step has kept the widest gap *)
C25_Witness ==
    /\ pc = "loop" /\ last_step = "match" /\ max_offset >= 2
    /\ Abs(src_cur - tar_cur) = max_offset - 1
    /\ LoopGuard(src, tar, Cur)

----------------------------------------------------------------------------
(* Properties of the contingency engine *)

Returned(measure) == epc = "returned" /\ cards.measure = measure

(* C7: whenever the population size n is resolved (non-zero), the
   cardinalities handed to the Doolittle formula satisfy a + b + c + d = n,
   with b = card(Xs) - a, c = card(Xt) - a and d = n - a - b - c. *)
C7_ContingencySum ==
    (Returned("Doolittle") /\ cards.n # 0) =>
        /\ cards.a + cards.b + cards.c + cards.d = cards.n
        /\ cards.b = card(src_tokens) - cards.a
        /\ cards.c = card(tar_tokens) - cards.a
        /\ cards.d = cards.n - cards.a - cards.b - cards.c

C7_Witness ==
    /\ Returned("Doolittle") /\ cards.n # 0
    /\ params.intersection_type = "fuzzy"
    /\ cards.a > 0 /\ cards.b > 0 /\ cards.c > cards.b /\ cards.d > 0

(* C8: in every intersection mode and for every population descriptor,
   a <= min(card(Xs), card(Xt)) and b, c, d >= 0. *)
C8_NonNegative ==
    epc = "returned" =>
        /\ cards.a <= Min(card(src_tokens), card(tar_tokens))
        /\ cards.b >= 0
        /\ cards.c >= 0
        /\ cards.d >= 0

(* C9: in exact mode the intersection cardinality is the sum over all
   tokens t of min(Xs[t], Xt[t]), and it is the same with source and target
   exchanged. *)
C9_ExactIntersection ==
    (epc = "returned" /\ params.intersection_type = "crisp") =>
        /\ cards.a = SimScale * SetSum(Tokens, [t \in Tokens |-> Min(src_tokens[t], tar_tokens[t])])
        /\ cards.a = intersection_card([Instance EXCEPT !.src_tokens = tar_tokens,
                                                        !.tar_tokens = src_tokens])

C9_Witness ==
    /\ epc = "returned" /\ params.intersection_type = "crisp"
    /\ Cardinality(Keys(src_tokens)) > Cardinality(Keys(tar_tokens))
    /\ \E t \in Tokens : tar_tokens[t] > src_tokens[t] /\ src_tokens[t] > 0
    /\ \E t \in Tokens : src_tokens[t] > tar_tokens[t] /\ tar_tokens[t] > 0

(* C10: threshold mode with cutoff 1.0 and an exact-match metric (1 for
   identical tokens, less than 1 otherwise) gives the intersection
   cardinality of exact mode. *)
C10_ThresholdOneIsExact ==
    (/\ epc = "returned" /\ params.intersection_type = "fuzzy"
     /\ params.threshold = SimScale /\ IsExactMatch(params.metric)) =>
        cards.a = Crisp(src_tokens, tar_tokens)

C10_Witness ==
    /\ epc = "returned" /\ params.intersection_type = "fuzzy"
    /\ params.threshold = SimScale /\ IsExactMatch(params.metric)
    /\ \E s \in Tokens, u \in Tokens : s # u /\ params.metric[<<s, u>>] > 0
                                         /\ src_tokens[s] > 0 /\ tar_tokens[u] > 0
    /\ cards.a > 0 /\ cards.b > 0 /\ cards.c > 0

(* C11: weighted mode with the metric that is 1.0 for identical tokens and
   0.0 otherwise gives the intersection cardinality of exact mode. *)
C11_IdentitySoftIsExact ==
    (/\ epc = "returned" /\ params.intersection_type = "soft"
     /\ params.metric = Identity) =>
        cards.a = Crisp(src_tokens, tar_tokens)

C11_Witness ==
    /\ epc = "returned" /\ params.intersection_type = "soft"
    /\ params.metric = Identity
    /\ \E s \in Tokens : src_tokens[s] > 1 /\ tar_tokens[s] > 1
    /\ \E s \in Tokens, u \in Tokens : s # u /\ src_tokens[s] > 0 /\ tar_tokens[u] > 0
    /\ cards.b > 0 /\ cards.c > 0

(* C23: for cardinalities with a + b + c + d = n, the numerator Doolittle.sim
   computes, (a*d - b*c)^2, equals the documented (a*n - (a+b)(a+c))^2, and
   the denominator is the documented one. *)
C23_CodedIsDocumented ==
    (/\ epc = "returned" /\ cards.measure = "Doolittle"
     /\ cards.a + cards.b + cards.c + cards.d = cards.n) =>
        /\ DoolittleNum(cards) = DocumentedNum(cards)
        /\ DoolittleDen(cards) = DocumentedDen(cards)

(* Doolittle.sim has read four positive cardinalities of a resolved
   population, with a non-zero numerator *)
C23_Witness ==
    /\ epc = "returned" /\ cards.measure = "Doolittle"
    /\ cards.a + cards.b + cards.c + cards.d = cards.n
    /\ cards.a > 0 /\ cards.b > 0 /\ cards.c > 0 /\ cards.d > 0
    /\ DoolittleNum(cards) > 0

(* C26: whenever the cardinalities TullossS.sim reads satisfy a, b, c >= 0,
   the divisor a + 1 is at least 1 and the logarithm's argument at least 2,
   so the formula raises nothing, its value lies in (0, 1], and it is 1
   exactly when min(b, c) = 0. *)
C26_TullossSDefined ==
    (/\ epc = "returned" /\ cards.measure = "TullossS"
     /\ cards.a >= 0 /\ cards.b >= 0 /\ cards.c >= 0) =>
        /\ TullossSArg(cards).den >= SimScale
        /\ TullossSArg(cards).num >= 2 * TullossSArg(cards).den
        /\ TullossSValue(cards).kind = "value"
        /\ TullossSValue(cards).size \in {"one", "below_one"}
        /\ TullossSValue(cards).size = "one" <=> Min(cards.b, cards.c) = 0

(* TullossS.sim has compared two non-empty inputs with nothing in common *)
C26_Witness ==
    /\ epc = "returned" /\ cards.measure = "TullossS"
    /\ cards.a = 0 /\ cards.b > 0 /\ cards.c > 0
    /\ TullossSValue(cards).size = "below_one"

(* C22: in threshold mode matches are consumed without reuse: what is
   attributed to a source token never exceeds its count, what is attributed
   to a target token never exceeds its count, both add up to the
   intersection cardinality, and the same inputs give the same cardinality. *)
C22_GreedyNoReuse ==
    (epc = "returned" /\ params.intersection_type = "fuzzy") =>
        LET tr == FuzzyClaims(params, src_tokens, 1, tar_tokens, EmptyTokens)
            taken == [u \in Tokens |-> tar_tokens[u] - tr.remT[u]]
        IN /\ \A s \in Tokens : tr.claimed[s] \in 0..src_tokens[s]
           /\ \A u \in Tokens : taken[u] \in 0..tar_tokens[u]
           /\ cards.a = SimScale * SetSum(Tokens, tr.claimed)
           /\ cards.a = SimScale * SetSum(Tokens, taken)
           /\ cards.a = intersection_card(Instance)

(* two source tokens meet the threshold for the only target token, which
   one of them has claimed *)
C22_Witness ==
    /\ epc = "returned" /\ params.intersection_type = "fuzzy"
    /\ \E s1 \in Tokens, s2 \in Tokens, u \in Tokens :
          /\ s1 # s2
          /\ Meets(params, s1, u) /\ Meets(params, s2, u)
          /\ src_tokens[s1] > 0 /\ src_tokens[s2] > 0
          /\ tar_tokens[u] = 1
          /\ \A w \in Tokens \ {u} : tar_tokens[w] = 0
    /\ cards.a = SimScale

----------------------------------------------------------------------------
(* Properties of comparisons sharing one instance *)

(* C12: two comparisons invoked concurrently on the same instance without
   locking each return the value they would return when run alone. *)
C12_ConcurrentAsAlone ==
    \A t \in Threads :
        calls[t].pc = "returned" =>
            SameValue(calls[t].value, AloneValue(params, calls[t]))

(* C13: in any sequence of comparisons on one instance, the score and the
   value a comparison returns depend only on its source, its target and the
   configuration, also when Dennis.corr compares two empty inputs after a
   comparison that left its tokens on the instance. *)
C13_NoLeak ==
    \A t \in Threads :
        /\ calls[t].pc = "scored" =>
              SameValue(calls[t].value, AloneScore(params, calls[t]))
        /\ calls[t].pc = "returned" =>
              /\ calls[t].value.kind # "none"
              /\ SameValue(calls[t].value, AloneValue(params, calls[t]))

(* Dennis.corr has returned for two empty inputs while the tokens of an
   earlier comparison are still on the instance *)
C13_Witness ==
    \E t \in Threads :
        /\ calls[t].pc = "returned"
        /\ calls[t].measure = "Dennis" /\ BothEmpty(calls[t])
        /\ src_tokens # EmptyTokens /\ tar_tokens # EmptyTokens

(* C14: Doolittle.sim returns a value for every input pair, a zero
   denominator surfacing as NaN or infinity and never as a raised error. *)
C14_NeverRaises ==
    \A t \in Threads :
        (calls[t].pc = "returned" /\ calls[t].measure = "Doolittle") =>
            calls[t].value.kind = "value"

====
